---- MODULE Spec2Model ----
(***************************************************************************)
(* A model of dumpctl.c: the store action (act_store) and the streaming    *)
(* copier (copy_file_to_fd) with its staging buffer (struct fbuf).         *)
(*                                                                         *)
(* Byte sequences (the inbound stream, the staging buffer, file contents)  *)
(* are kept run-length encoded: a sequence of runs <<s, n>> stands for the *)
(* bytes of the inbound stream at positions s, s+1, ..., s+n-1, in order.  *)
(* Every byte of the stream is thereby distinct, so a lost, repeated or    *)
(* reordered byte changes the sequence.                                    *)
(***************************************************************************)
EXTENDS Integers, Sequences, FiniteSets, TLC

\* ---------------------------------------------------------------- bounds

\* Longest inbound stream, in bytes beyond two staging buffers.
MaxExtra == 1
\* Most failures the environment injects into the reads and writes of one copy.
MaxFaults == 11
\* Most transfers of one copy that move fewer bytes than they could.
MaxShort == 4
\* Most words after the action word on the command line.
MaxTokens == 10

\* how far from 0 and from the capacity the occupancies and sizes of a feed
\* on its own go
FeedEdge == 3

\* how far from 0, from 2^15 and from 2^16 - 1 the 16-bit words of a long byte
\* count go
WideEdge == 1

\* ------------------------------------------------------ program constants

\* sizeof(f->buf)
BufSize == 4096
\* the error budget of copy_file_to_fd: "if (err > 10)"
MaxErr == 10
\* sizeof(path_buf)
PATH_MAX == 4096
\* exit(EXIT_FAILURE)
EXIT_FAILURE == 1
\* the status of a process that abort() ended (128 + SIGABRT)
ABORT_STATUS == 134

\* ------------------------------------------------------- byte sequences

RECURSIVE RLen(_)
RLen(rs) == IF rs = <<>> THEN 0 ELSE Head(rs)[2] + RLen(Tail(rs))

\* rs followed by the run r, joined to the last run when it continues it
RPush(rs, r) ==
    IF r[2] = 0 THEN rs
    ELSE IF rs = <<>> THEN <<r>>
    ELSE LET l == rs[Len(rs)] IN
         IF r[1] = l[1] + l[2]
         THEN [rs EXCEPT ![Len(rs)] = <<l[1], l[2] + r[2]>>]
         ELSE Append(rs, r)

RECURSIVE RCat(_, _)
RCat(a, b) == IF b = <<>> THEN a ELSE RCat(RPush(a, Head(b)), Tail(b))

\* the first n bytes of rs
RECURSIVE RTake(_, _)
RTake(rs, n) ==
    IF n <= 0 \/ rs = <<>> THEN <<>>
    ELSE LET h == Head(rs) IN
         IF h[2] >= n THEN << <<h[1], n>> >>
         ELSE RCat(<<h>>, RTake(Tail(rs), n - h[2]))

\* rs without its first n bytes
RECURSIVE RDrop(_, _)
RDrop(rs, n) ==
    IF n <= 0 \/ rs = <<>> THEN rs
    ELSE LET h == Head(rs) IN
         IF h[2] > n
         THEN << <<h[1] + n, h[2] - n>> >> \o Tail(rs)
         ELSE RDrop(Tail(rs), n - h[2])

\* bytes lo .. lo+n-1 of the inbound stream
Bytes(lo, n) == IF n = 0 THEN <<>> ELSE << <<lo, n>> >>

Min(a, b) == IF a <= b THEN a ELSE b

\* the contents of a file after data is written at offset off (no truncation)
WriteAt(content, off, data) ==
    RCat(RCat(RTake(content, off), data), RDrop(content, off + RLen(data)))

\* --------------------------------------------------------------- strings

\* C strings are TLA+ strings; Chr(s, i) is the one-character string at i
Chr(s, i) == SubSeq(s, i, i)

LowerDigits == "0123456789abcdef"
UpperDigits == "0123456789ABCDEF"

\* whether c is a digit of the base
IsDigit(c, base) ==
    \E i \in 1..base : Chr(LowerDigits, i) = c \/ Chr(UpperDigits, i) = c

DigitVal(c) ==
    (CHOOSE i \in 1..Len(LowerDigits) : Chr(LowerDigits, i) = c \/ Chr(UpperDigits, i) = c) - 1

\* the first index at or after i of s that holds no digit of the base
RECURSIVE DigitsEnd(_, _, _)
DigitsEnd(s, i, base) ==
    IF i <= Len(s) /\ IsDigit(Chr(s, i), base) THEN DigitsEnd(s, i + 1, base) ELSE i

RECURSIVE StripZeros(_)
StripZeros(s) == IF Len(s) > 1 /\ Chr(s, 1) = "0" THEN StripZeros(Tail(s)) ELSE s

RECURSIVE NumeralValue(_, _)
NumeralValue(s, base) ==
    IF s = "" THEN 0
    ELSE NumeralValue(SubSeq(s, 1, Len(s) - 1), base) * base + DigitVal(Chr(s, Len(s)))

\* the digits of the longest numeral of the base that fits uintmax_t for sure
\* (UINTMAX_MAX = 2^64 - 1 has 20 digits in base 10, 22 in base 8, 16 in base 16)
MaxDigits(base) == IF base = 10 THEN 20 ELSE IF base = 8 THEN 22 ELSE 16

\* strtoumax(n, &end, 0) for a string without leading white space or sign:
\* the base is 16 after "0x" or "0X" and a hex digit, 8 after "0", else 10; the
\* digits of the base are consumed; end is the index of the first character not
\* consumed (Len(n) + 1 stands for the terminating NUL); without any digit the
\* value is 0 and end is the start of the string.  A numeral longer than
\* MaxDigits does not fit uintmax_t: the value is UINTMAX_MAX and errno ERANGE.
\* The value of a numeral that fits is an Int; the strings of the model keep it
\* below 2^31.
strtoumax(n) ==
    LET hex == /\ Len(n) >= 3
               /\ Chr(n, 1) = "0"
               /\ Chr(n, 2) \in {"x", "X"}
               /\ IsDigit(Chr(n, 3), 16)
        base == IF hex THEN 16 ELSE IF Len(n) >= 1 /\ Chr(n, 1) = "0" THEN 8 ELSE 10
        start == IF hex THEN 3 ELSE 1
        end == DigitsEnd(n, start, base)
        sig == StripZeros(SubSeq(n, start, end - 1))
        erange == Len(sig) > MaxDigits(base)
    IN  [v |-> IF erange \/ end = start THEN 0 ELSE NumeralValue(sig, base),
         end |-> end,
         erange |-> erange]

\* parse_unum: whether the call returns (it exits on ERANGE and on characters
\* after the numeral), and the value it returns
parse_unum_ok(n) == LET r == strtoumax(n) IN ~r.erange /\ r.end = Len(n) + 1

parse_unum(n) == strtoumax(n).v

\* printf's %ju
RECURSIVE Decimal(_)
Decimal(v) ==
    IF v < 10 THEN Chr(LowerDigits, v + 1)
    ELSE Decimal(v \div 10) \o Chr(LowerDigits, (v % 10) + 1)

\* strftime's %m, %d, %H, %M, %S: two digits
Pad2(v) == IF v < 10 THEN "0" \o Decimal(v) ELSE Decimal(v)

\* gmtime_r: the broken-down UTC time of t seconds since the epoch
gmtime(t) ==
    LET days == t \div 86400
        secs == t % 86400
        z == days + 719468
        era == z \div 146097
        doe == z - era * 146097
        yoe == (doe - doe \div 1460 + doe \div 36524 - doe \div 146096) \div 365
        doy == doe - (365 * yoe + yoe \div 4 - yoe \div 100)
        mp == (5 * doy + 2) \div 153
        d == doy - (153 * mp + 2) \div 5 + 1
        m == IF mp < 10 THEN mp + 3 ELSE mp - 9
        y == yoe + era * 400 + (IF m <= 2 THEN 1 ELSE 0)
    IN  [year |-> y, mon |-> m, mday |-> d,
         hour |-> secs \div 3600, min |-> (secs % 3600) \div 60, sec |-> secs % 60]

\* strftime(path_buf, sizeof(path_buf), "%F_%H:%M:%S", &tm)
strftime(tm) ==
    Decimal(tm.year) \o "-" \o Pad2(tm.mon) \o "-" \o Pad2(tm.mday) \o "_"
    \o Pad2(tm.hour) \o ":" \o Pad2(tm.min) \o ":" \o Pad2(tm.sec)

\* snprintf(p, ..., ".pid=%ju.uid=%ju", pid, uid) after the date: the leaf name
LeafName(t, pid_v, uid_v) ==
    strftime(gmtime(t)) \o ".pid=" \o Decimal(pid_v) \o ".uid=" \o Decimal(uid_v)

\* ------------------------------------------------------------- variables

VARIABLES
    pc,             \* the statement the process is at
    ndebug,         \* the build: TRUE when compiled with NDEBUG (assert() is a no-op)
    in_len,         \* stdin: the length of the inbound stream
    in_pos,         \* stdin: bytes consumed so far
    in_eof,         \* stdin: the stream's end-of-file indicator (feof)
    f,              \* copy_file_to_fd: struct fbuf f
    read_bytes,     \* copy_file_to_fd: read_bytes
    written_bytes,  \* copy_file_to_fd: written_bytes
    err,            \* copy_file_to_fd: err
    done_reading,   \* copy_file_to_fd: done_reading
    core,           \* the contents of the file behind out_fd
    core_off,       \* the file offset of out_fd
    faults,         \* failures the environment has injected into this copy
    shorts,         \* short transfers the environment has made in this copy
    rfault,         \* whether the latest read attempt was a failure
    wfault,         \* whether the latest write attempt was a failure
    refail,         \* whether the retry of a failed read or write has failed too
    ret,            \* the value copy_file_to_fd returned
    op,             \* the library call the last step made
    argc,           \* main, act_store: argc
    argv,           \* main, act_store: the words argv points at, argv[0] first
    optind,         \* getopt's optind once main has read the options
    dir,            \* main, act_store: the characters of the buffer dir points at
    p,              \* act_store: p, an index into dir (1 is dir[0])
    fields,         \* act_store: pid, uid, gid, sig, ts, comm and path
    path_buf,       \* act_store: the string in path_buf
    store_fd,       \* act_store: what store_fd is open on
    fs_dirs,        \* the file system: its directories
    fs_files,       \* the file system: its regular files
    info,           \* the file system: the contents of info.txt in the leaf
    calls,          \* the file system calls the process has made
    mkdirs,         \* the arguments of the mkdir calls of the walk in progress
    failed,         \* whether a stage of the store action has failed
    exit_status,    \* the exit status of the process, once pc says it has ended
    exit_at,        \* the statement at which the process ended
    dir0,           \* the string dir held when act_store was entered
    run,            \* the number of the directory walk under way (SpecWalk)
    dirs_first,     \* the directories when the first walk ended (SpecWalk)
    feed_call,      \* fbuf_feed called on its own: its argument n and the occupancy b at the call (SpecFeed)
    other,          \* a second store invocation on the same leaf (SpecTwo)
    wide            \* the byte count of a long copy and the results made of it (SpecWidth)

fault_hist == <<rfault, wfault, refail>>

copy_vars == <<in_len, in_pos, in_eof, f, read_bytes, written_bytes, err,
               done_reading, core, core_off, faults, shorts, ret, fault_hist>>

store_vars == <<argc, argv, optind, dir, p, fields, path_buf, store_fd>>

fs_vars == <<fs_dirs, fs_files, info>>

walk_hist == <<run, dirs_first, dir0>>

hist_vars == <<calls, mkdirs, failed, walk_hist>>

exit_vars == <<exit_status, exit_at>>

side_vars == <<feed_call, other, wide>>

vars == <<pc, ndebug, op, copy_vars, store_vars, fs_vars, hist_vars, exit_vars,
          side_vars>>

\* ------------------------------------------------------------ struct fbuf

\* f->buf holds the bytes the program has put into the array, from its start
fbuf_init == [bytes_in_buf |-> 0, buf |-> <<>>]

\* a buffer that reports its whole capacity as free whatever it holds
fbuf_space_Whole(b) == BufSize

\* fbuf_space: sizeof(f->buf) - f->bytes_in_buf
fbuf_space(b) == BufSize - b.bytes_in_buf

\* a buffer that reports no data whatever it holds
fbuf_data_None(b) == 0

\* fbuf_data: f->bytes_in_buf
fbuf_data(b) == b.bytes_in_buf

\* the bytes write() is handed: fbuf_data(f) bytes from fbuf_data_ptr(f)
fbuf_data_bytes(b) == RTake(b.buf, b.bytes_in_buf)

\* fread() stores data at fbuf_space_ptr(f) = f->buf + f->bytes_in_buf
fbuf_store(b, data) == [b EXCEPT !.buf = RCat(RTake(b.buf, b.bytes_in_buf), data)]

\* f->bytes_in_buf += n (a size_t sum of two values of at most BufSize: no wrap)
fbuf_feed(b, n) == [b EXCEPT !.bytes_in_buf = b.bytes_in_buf + n]

\* the condition of fbuf_feed's assert, evaluated after the addition
fbuf_feed_assert(b, n) == b.bytes_in_buf < n

\* the condition of fbuf_eat's assert
fbuf_eat_assert(b, n) == n <= b.bytes_in_buf

\* an eat that lowers the occupancy and leaves the bytes where they are
fbuf_eat_NoMove(b, n) == [bytes_in_buf |-> b.bytes_in_buf - n, buf |-> b.buf]

\* memmove(f->buf, f->buf + n, f->bytes_in_buf - n); f->bytes_in_buf -= n
fbuf_eat(b, n) ==
    [bytes_in_buf |-> b.bytes_in_buf - n,
     buf |-> RDrop(RTake(b.buf, b.bytes_in_buf), n)]

\* ------------------------------------------------- the environment's I/O

\* the sizes of a transfer shorter than the m bytes that could be moved
ShortSizes(m) == {k \in {1, m - 1} : 0 < k /\ k < m /\ shorts < MaxShort}

\* fread(ptr, 1, n, stdin): the count returned, the end-of-file indicator after
\* the call, and whether the call failed for a reason other than end of file.
\* A request for no bytes returns 0 and leaves the stream as it is; a request
\* after end of file returns 0; otherwise fread returns the n bytes asked for,
\* or fewer when it meets the end of the stream or an error.
FreadOutcomes(n) ==
    IF n = 0 THEN {[rl |-> 0, eof |-> in_eof, fault |-> FALSE]}
    ELSE IF in_eof THEN {[rl |-> 0, eof |-> TRUE, fault |-> FALSE]}
    ELSE LET avail == in_len - in_pos
             m == Min(n, avail)
         IN  {[rl |-> m, eof |-> avail < n, fault |-> FALSE]}
             \cup {[rl |-> k, eof |-> FALSE, fault |-> FALSE] : k \in ShortSizes(m)}
             \cup (IF faults < MaxFaults
                   THEN {[rl |-> 0, eof |-> FALSE, fault |-> TRUE]} ELSE {})

\* write(out_fd, ptr, n) for n > 0: the count returned, at most n; 0 and -1 are
\* the failures
WriteOutcomes(n) ==
    {n} \cup ShortSizes(n) \cup {w \in {0, -1} : faults < MaxFaults}

\* ------------------------------------------------------ copy_file_to_fd

\* a copier that allows one error more before it gives up
TooManyErrors_Late(e) == e > MaxErr + 1

\* if (err > 10)
TooManyErrors(e) == e > MaxErr

\* if (err > 10) return -1;
CopyTooManyErrors ==
    /\ pc = "copy_top"
    /\ TooManyErrors(err)
    /\ ret' = -1
    /\ pc' = "copy_ret"
    /\ op' = "return"
    /\ UNCHANGED <<ndebug, side_vars, in_len, in_pos, in_eof, f, read_bytes, written_bytes,
                   err, done_reading, core, core_off, faults, shorts, fault_hist>>
    /\ UNCHANGED <<store_vars, fs_vars, hist_vars, exit_vars>>

\* fread returned 0 and feof() is false: err++; continue
CopyReadError ==
    /\ pc = "copy_top"
    /\ ~TooManyErrors(err)
    /\ \E o \in FreadOutcomes(fbuf_space(f)) :
        /\ o.rl = 0 /\ ~o.eof
        /\ faults' = IF o.fault THEN faults + 1 ELSE faults
        /\ rfault' = (rfault \/ o.fault)
        /\ refail' = (refail \/ (o.fault /\ rfault))
    /\ UNCHANGED wfault
    /\ err' = err + 1
    /\ pc' = "copy_top"
    /\ op' = "fread"
    /\ UNCHANGED <<ndebug, side_vars, in_len, in_pos, in_eof, f, read_bytes, written_bytes,
                   done_reading, core, core_off, shorts, ret>>
    /\ UNCHANGED <<store_vars, fs_vars, hist_vars, exit_vars>>

\* fread returned data or met end of file; fbuf_feed; read_bytes += rl.
\* fbuf_feed's assert ends the process when it fails in a build that keeps it.
CopyRead ==
    /\ pc = "copy_top"
    /\ ~TooManyErrors(err)
    /\ \E o \in FreadOutcomes(fbuf_space(f)) :
        /\ ~(o.rl = 0 /\ ~o.eof)
        /\ in_pos' = in_pos + o.rl
        /\ in_eof' = o.eof
        /\ done_reading' = (done_reading \/ o.rl = 0)
        /\ shorts' = IF o.rl \in ShortSizes(Min(fbuf_space(f), in_len - in_pos))
                     THEN shorts + 1 ELSE shorts
        /\ LET g == fbuf_feed(fbuf_store(f, Bytes(in_pos, o.rl)), o.rl) IN
           /\ f' = g
           /\ IF ndebug \/ fbuf_feed_assert(g, o.rl)
              THEN /\ read_bytes' = read_bytes + o.rl
                   /\ pc' = "copy_write"
                   /\ UNCHANGED <<failed, exit_vars>>
              ELSE /\ read_bytes' = read_bytes
                   /\ pc' = "aborted"
                   /\ failed' = TRUE
                   /\ exit_status' = ABORT_STATUS
                   /\ exit_at' = pc
    /\ op' = "fread"
    /\ rfault' = FALSE
    /\ UNCHANGED <<ndebug, side_vars, in_len, written_bytes, err, core, core_off, faults, ret,
                   wfault, refail>>
    /\ UNCHANGED <<store_vars, fs_vars, calls, mkdirs, walk_hist>>

\* if (fbuf_data(&f) == 0) return written_bytes;
CopyReturn ==
    /\ pc = "copy_write"
    /\ fbuf_data(f) = 0
    /\ ret' = written_bytes
    /\ pc' = "copy_ret"
    /\ op' = "return"
    /\ UNCHANGED <<ndebug, side_vars, in_len, in_pos, in_eof, f, read_bytes, written_bytes,
                   err, done_reading, core, core_off, faults, shorts, fault_hist>>
    /\ UNCHANGED <<store_vars, fs_vars, hist_vars, exit_vars>>

\* write returned 0 or a negative value: err++; break
CopyWriteError ==
    /\ pc = "copy_write"
    /\ fbuf_data(f) # 0
    /\ \E wl \in WriteOutcomes(fbuf_data(f)) : wl <= 0
    /\ faults' = faults + 1
    /\ wfault' = TRUE
    /\ refail' = (refail \/ wfault)
    /\ UNCHANGED rfault
    /\ err' = err + 1
    /\ pc' = "copy_top"
    /\ op' = "write"
    /\ calls' = calls \cup {"write"}
    /\ UNCHANGED <<ndebug, side_vars, in_len, in_pos, in_eof, f, read_bytes, written_bytes,
                   done_reading, core, core_off, shorts, ret>>
    /\ UNCHANGED <<store_vars, fs_vars, mkdirs, failed, walk_hist, exit_vars>>

\* write accepted wl bytes: fbuf_eat; written_bytes += wl;
\* while (fbuf_space(&f) == 0 || done_reading)
CopyWrite ==
    /\ pc = "copy_write"
    /\ fbuf_data(f) # 0
    /\ \E wl \in WriteOutcomes(fbuf_data(f)) :
        /\ wl > 0
        /\ core' = WriteAt(core, core_off, RTake(fbuf_data_bytes(f), wl))
        /\ core_off' = core_off + wl
        /\ shorts' = IF wl < fbuf_data(f) THEN shorts + 1 ELSE shorts
        /\ IF ndebug \/ fbuf_eat_assert(f, wl)
           THEN /\ f' = fbuf_eat(f, wl)
                /\ written_bytes' = written_bytes + wl
                /\ pc' = IF fbuf_space(fbuf_eat(f, wl)) = 0 \/ done_reading
                         THEN "copy_write" ELSE "copy_top"
                /\ UNCHANGED <<failed, exit_vars>>
           ELSE /\ UNCHANGED <<f, written_bytes>>
                /\ pc' = "aborted"
                /\ failed' = TRUE
                /\ exit_status' = ABORT_STATUS
                /\ exit_at' = pc
    /\ op' = "write"
    /\ calls' = calls \cup {"write"}
    /\ wfault' = FALSE
    /\ UNCHANGED <<ndebug, side_vars, in_len, in_pos, in_eof, read_bytes, err, done_reading,
                   faults, ret, rfault, refail>>
    /\ UNCHANGED <<store_vars, fs_vars, mkdirs, walk_hist>>

\* ------------------------------------------------------------ C strings

\* stands for the character '\0', which no word of the model holds
NUL == "$"

\* s with the character at index i replaced by c
SetChr(s, i, c) == SubSeq(s, 1, i - 1) \o c \o SubSeq(s, i + 1, Len(s))

\* the index of the terminator of the C string in buffer s, from index i on
RECURSIVE StrEnd(_, _)
StrEnd(s, i) == IF i <= Len(s) /\ Chr(s, i) # NUL THEN StrEnd(s, i + 1) ELSE i

\* the C string a pointer to the start of buffer s denotes
CStr(s) == SubSeq(s, 1, StrEnd(s, 1) - 1)

\* strchr(s + i - 1, c): the index of the first c at or after index i, 0 for NULL
RECURSIVE strchr(_, _, _)
strchr(s, i, c) ==
    IF i > Len(s) \/ Chr(s, i) = NUL THEN 0
    ELSE IF Chr(s, i) = c THEN i
    ELSE strchr(s, i + 1, c)

\* a pointer to a string, and the null pointer
Ptr(str) == [null |-> FALSE, s |-> str]
NULL == [null |-> TRUE, s |-> ""]

\* what printf's %s prints for a pointer (the C library prints "(null)" for NULL)
PrintS(ptr) == IF ptr.null THEN "(null)" ELSE ptr.s

\* ---------------------------------------------------------- file system

\* the components of a path name: the names between its slashes
RECURSIVE Components(_, _, _)
Components(s, i, cur) ==
    IF i > Len(s) THEN (IF cur = "" THEN <<>> ELSE <<cur>>)
    ELSE IF Chr(s, i) = "/"
         THEN (IF cur = "" THEN <<>> ELSE <<cur>>) \o Components(s, i + 1, "")
         ELSE Components(s, i + 1, cur \o Chr(s, i))

\* the file a path name resolves to: the sequence of its components
Canon(path) == Components(path, 1, "")

Parent(c) == SubSeq(c, 1, Len(c) - 1)

IsDir(c) == c = <<>> \/ c \in fs_dirs

Exists(c) == IsDir(c) \/ c \in fs_files

\* mkdir(path, 0777): "EEXIST" when the name exists; otherwise the directory is
\* made ("ok") or the call fails for another reason ("fail": a missing parent,
\* a parent that is no directory, no permission, no space)
MkdirOutcomes(path) ==
    IF Exists(Canon(path)) THEN {"EEXIST"}
    ELSE IF IsDir(Parent(Canon(path))) THEN {"ok", "fail"}
    ELSE {"fail"}

\* opendir(path), and openat(fd, name, O_CREAT|O_WRONLY) on a directory fd: the
\* call may fail whatever the file system holds (permissions, descriptors)
OpendirOutcomes(path) == IF IsDir(Canon(path)) THEN {"ok", "fail"} ELSE {"fail"}

\* openat(dirfd, name, O_CREAT | O_DIRECTORY | O_RDWR, 0755) on the path c.
\* An existing directory cannot be opened for writing (EISDIR) and an existing
\* regular file is no directory (ENOTDIR).  For a missing name Linux has made
\* a regular file and returned a descriptor on it (before 5.7), made the
\* regular file and failed with ENOTDIR (5.7 to 6.3), or failed with EINVAL
\* and made nothing (6.4 on).  fd is what the descriptor is open on.
OpenStoreOutcomes(c) ==
    IF Exists(c) THEN {[fd |-> "none", creates |-> FALSE]}
    ELSE {[fd |-> "none", creates |-> FALSE],
          [fd |-> "none", creates |-> TRUE],
          [fd |-> "file", creates |-> TRUE]}

\* --------------------------------------------------------------- main

\* const char *default_path = CFG_COREDUMP_PATH
default_path == "/var/lib/systemd/coredump"

\* exit(status)
Exit(status) == pc' = "exited" /\ exit_status' = status /\ exit_at' = pc

\* case ACT_STORE: argc -= optind + 1; argv += optind + 1; act_store(dir, argc, argv)
MainStore ==
    /\ pc = "main"
    /\ argc' = argc - (optind + 1)
    /\ argv' = SubSeq(argv, optind + 2, Len(argv))
    /\ pc' = "store_validate"
    /\ op' = "none"
    /\ UNCHANGED <<ndebug, side_vars, copy_vars, optind, dir, p, fields, path_buf, store_fd,
                   fs_vars, hist_vars, exit_vars>>

\* ------------------------------------------------------------ act_store

\* argv[k] for k < argc
ArgWord(k) == argv[k + 1]

\* the values argv[k] can have: a word, the null pointer that ends the vector,
\* and beyond it whatever follows the vector in memory (the first pointer of
\* the environment, null when the environment is empty)
ArgvAt(k) ==
    IF k < argc THEN {Ptr(ArgWord(k))}
    ELSE IF k = argc THEN {NULL}
    ELSE {NULL, Ptr("HOME=/")}

\* int ct = argc - optind; if (ct != 7 && ct != 8)
StoreCt == argc - optind

ArityOk(ct) == ct = 7 \/ ct = 8

\* if (dir[0] != '/')
AbsoluteOk(d) == Len(d) >= 1 /\ Chr(d, 1) = "/"

\* the offsets from optind of the words parse_unum is called on, in order
NumOffsets == <<1, 2, 3, 4, 5>>
CommOffset == 7
PathOffset == 8

\* if (err) exit(EXIT_FAILURE) after the two checks
StoreArgsRejected ==
    /\ pc = "store_validate"
    /\ ~(ArityOk(StoreCt) /\ AbsoluteOk(dir))
    /\ Exit(EXIT_FAILURE)
    /\ failed' = TRUE
    /\ op' = "none"
    /\ UNCHANGED <<ndebug, side_vars, copy_vars, store_vars, fs_vars, calls, mkdirs, walk_hist>>

StoreArgsAccepted ==
    /\ pc = "store_validate"
    /\ ArityOk(StoreCt) /\ AbsoluteOk(dir)
    /\ pc' = "store_parse"
    /\ op' = "none"
    /\ UNCHANGED <<ndebug, side_vars, copy_vars, store_vars, fs_vars, hist_vars, exit_vars>>

\* a parse_unum call exits
StoreParseFail ==
    /\ pc = "store_parse"
    /\ \E i \in 1..Len(NumOffsets) : ~parse_unum_ok(ArgWord(optind + NumOffsets[i]))
    /\ Exit(EXIT_FAILURE)
    /\ failed' = TRUE
    /\ op' = "none"
    /\ UNCHANGED <<ndebug, side_vars, copy_vars, store_vars, fs_vars, calls, mkdirs, walk_hist>>

\* pid, uid, gid, sig, ts, comm, path as lines 290-301 set them
Decoded(c, q) ==
    [pid |-> parse_unum(ArgWord(optind + NumOffsets[1])),
     uid |-> parse_unum(ArgWord(optind + NumOffsets[2])),
     gid |-> parse_unum(ArgWord(optind + NumOffsets[3])),
     sig |-> parse_unum(ArgWord(optind + NumOffsets[4])),
     ts |-> parse_unum(ArgWord(optind + NumOffsets[5])),
     comm |-> c,
     path |-> q]

\* the five parse_unum calls return; comm and path are read; p = dir + 1
StoreParse ==
    /\ pc = "store_parse"
    /\ \A i \in 1..Len(NumOffsets) : parse_unum_ok(ArgWord(optind + NumOffsets[i]))
    /\ \E c \in ArgvAt(optind + CommOffset), q \in ArgvAt(optind + PathOffset) :
           fields' = Decoded(c, q)
    /\ p' = 2
    /\ pc' = "walk"
    /\ op' = "none"
    /\ UNCHANGED <<ndebug, side_vars, copy_vars, argc, argv, optind, dir, path_buf, store_fd,
                   fs_vars, hist_vars, exit_vars>>

\* a walk that takes every mkdir failure, EEXIST included, as fatal
MkdirFatal_Any(r) == r # "ok"

\* if (r == -1) if (errno != EEXIST): the mkdir result that is fatal
MkdirFatal(r) == r = "fail"

\* *p = '/' after the mkdir
WalkRestore(buf, q) == SetChr(buf, q, "/")

\* dir as mkdir sees it in this iteration: p = strchr(p, '/'); if (p) *p = '\0'
WalkCut(buf, q) == IF q = 0 THEN buf ELSE SetChr(buf, q, NUL)

\* one iteration of the walk whose mkdir succeeds or finds the name existing
StoreMkdir ==
    /\ pc = "walk"
    /\ LET q == strchr(dir, p, "/")
           cut == WalkCut(dir, q)
       IN  /\ \E r \in MkdirOutcomes(CStr(cut)) :
                /\ ~MkdirFatal(r)
                /\ fs_dirs' = IF r = "ok" THEN fs_dirs \cup {Canon(CStr(cut))} ELSE fs_dirs
           /\ mkdirs' = Append(mkdirs, CStr(cut))
           /\ IF q = 0
              THEN /\ dir' = cut
                   /\ p' = 0
                   /\ pc' = "opendir"
              ELSE /\ dir' = WalkRestore(cut, q)
                   /\ p' = q + 1
                   /\ pc' = "walk"
    /\ calls' = calls \cup {"mkdir"}
    /\ op' = "mkdir"
    /\ UNCHANGED <<ndebug, side_vars, copy_vars, argc, argv, optind, fields, path_buf, store_fd,
                   fs_files, info, failed, walk_hist, exit_vars>>

\* one iteration of the walk whose mkdir fails: exit(EXIT_FAILURE)
StoreMkdirFail ==
    /\ pc = "walk"
    /\ LET q == strchr(dir, p, "/")
           cut == WalkCut(dir, q)
       IN  /\ \E r \in MkdirOutcomes(CStr(cut)) : MkdirFatal(r)
           /\ mkdirs' = Append(mkdirs, CStr(cut))
           /\ dir' = cut
           /\ p' = q
    /\ Exit(EXIT_FAILURE)
    /\ failed' = TRUE
    /\ calls' = calls \cup {"mkdir"}
    /\ op' = "mkdir"
    /\ UNCHANGED <<ndebug, side_vars, copy_vars, argc, argv, optind, fields, path_buf, store_fd,
                   fs_vars, walk_hist>>

\* DIR *d = opendir(dir)
StoreOpendir ==
    /\ pc = "opendir"
    /\ "ok" \in OpendirOutcomes(CStr(dir))
    /\ pc' = "leaf"
    /\ calls' = calls \cup {"opendir"}
    /\ op' = "opendir"
    /\ UNCHANGED <<ndebug, side_vars, copy_vars, store_vars, fs_vars, mkdirs, failed,
                   walk_hist, exit_vars>>

StoreOpendirFail ==
    /\ pc = "opendir"
    /\ "fail" \in OpendirOutcomes(CStr(dir))
    /\ Exit(EXIT_FAILURE)
    /\ failed' = TRUE
    /\ calls' = calls \cup {"opendir"}
    /\ op' = "opendir"
    /\ UNCHANGED <<ndebug, side_vars, copy_vars, store_vars, fs_vars, mkdirs, walk_hist>>

\* gmtime_r, strftime, snprintf and the two length checks (lines 332-356)
StoreLeaf ==
    /\ pc = "leaf"
    /\ LET b == Len(strftime(gmtime(fields.ts)))
           name == LeafName(fields.ts, fields.pid, fields.uid)
           r == Len(name) - b
       IN  IF b >= PATH_MAX \/ r > PATH_MAX - b - 1
           THEN /\ Exit(EXIT_FAILURE)
                /\ failed' = TRUE
                /\ UNCHANGED path_buf
           ELSE /\ path_buf' = name
                /\ pc' = "open_store"
                /\ UNCHANGED <<failed, exit_vars>>
    /\ op' = "none"
    /\ UNCHANGED <<ndebug, side_vars, copy_vars, argc, argv, optind, dir, p, fields, store_fd,
                   fs_vars, calls, mkdirs, walk_hist>>

\* the file path_buf names in the directory d
LeafPath == Canon(CStr(dir)) \o <<path_buf>>

\* store_fd = openat(dirfd(d), path_buf, ...) returns -1: exit(EXIT_FAILURE)
StoreOpenStoreFail ==
    /\ pc = "open_store"
    /\ \E o \in OpenStoreOutcomes(LeafPath) :
        /\ o.fd = "none"
        /\ fs_files' = IF o.creates THEN fs_files \cup {LeafPath} ELSE fs_files
    /\ Exit(EXIT_FAILURE)
    /\ failed' = TRUE
    /\ calls' = calls \cup {"openat"}
    /\ op' = "openat"
    /\ UNCHANGED <<ndebug, side_vars, copy_vars, store_vars, fs_dirs, info, mkdirs, walk_hist>>

\* store_fd = openat(dirfd(d), path_buf, ...) returns a descriptor
StoreOpenStore ==
    /\ pc = "open_store"
    /\ \E o \in OpenStoreOutcomes(LeafPath) :
        /\ o.fd # "none"
        /\ fs_files' = IF o.creates THEN fs_files \cup {LeafPath} ELSE fs_files
        /\ store_fd' = [kind |-> o.fd, path |-> LeafPath]
    /\ pc' = "open_core"
    /\ calls' = calls \cup {"openat"}
    /\ op' = "openat"
    /\ UNCHANGED <<ndebug, side_vars, copy_vars, argc, argv, optind, dir, p, fields, path_buf,
                   fs_dirs, info, mkdirs, failed, walk_hist, exit_vars>>

\* core_fd = openat(store_fd, "core", O_CREAT|O_WRONLY, 0644) returns -1:
\* store_fd is no directory, or the call fails for another reason
StoreOpenCoreFail ==
    /\ pc = "open_core"
    /\ Exit(EXIT_FAILURE)
    /\ failed' = TRUE
    /\ calls' = calls \cup {"openat"}
    /\ op' = "openat"
    /\ UNCHANGED <<ndebug, side_vars, copy_vars, store_vars, fs_vars, mkdirs, walk_hist>>

\* core_fd = openat(store_fd, "core", O_CREAT|O_WRONLY, 0644) in a directory:
\* the file is made when missing and is not truncated; r = copy_file_to_fd(...)
\* starts with its locals initialised
StoreOpenCore ==
    /\ pc = "open_core"
    /\ store_fd.kind = "dir"
    /\ fs_files' = fs_files \cup {store_fd.path \o <<"core">>}
    /\ core_off' = 0
    /\ f' = fbuf_init
    /\ read_bytes' = 0
    /\ written_bytes' = 0
    /\ err' = 0
    /\ done_reading' = FALSE
    /\ pc' = "copy_top"
    /\ calls' = calls \cup {"openat"}
    /\ op' = "openat"
    /\ UNCHANGED <<ndebug, side_vars, in_len, in_pos, in_eof, core, faults, shorts, ret, fault_hist,
                   store_vars, fs_dirs, info, mkdirs, failed, walk_hist, exit_vars>>

\* r = copy_file_to_fd(core_fd, stdin); if (r < 0) exit(EXIT_FAILURE)
StoreCopyFailed ==
    /\ pc = "copy_ret"
    /\ ret < 0
    /\ Exit(EXIT_FAILURE)
    /\ failed' = TRUE
    /\ op' = "none"
    /\ UNCHANGED <<ndebug, side_vars, copy_vars, store_vars, fs_vars, calls, mkdirs, walk_hist>>

\* r >= 0: close(core_fd)
StoreCopyDone ==
    /\ pc = "copy_ret"
    /\ ~(ret < 0)
    /\ pc' = "open_info"
    /\ op' = "close"
    /\ UNCHANGED <<ndebug, side_vars, copy_vars, store_vars, fs_vars, hist_vars, exit_vars>>

\* info_fd = openat(store_fd, "info.txt", O_CREAT|O_WRONLY, 0644) returns -1
StoreOpenInfoFail ==
    /\ pc = "open_info"
    /\ Exit(EXIT_FAILURE)
    /\ failed' = TRUE
    /\ calls' = calls \cup {"openat"}
    /\ op' = "openat"
    /\ UNCHANGED <<ndebug, side_vars, copy_vars, store_vars, fs_vars, mkdirs, walk_hist>>

\* info_fd = openat(store_fd, "info.txt", O_CREAT|O_WRONLY, 0644)
StoreOpenInfo ==
    /\ pc = "open_info"
    /\ store_fd.kind = "dir"
    /\ fs_files' = fs_files \cup {store_fd.path \o <<"info.txt">>}
    /\ pc' = "write_info"
    /\ calls' = calls \cup {"openat"}
    /\ op' = "openat"
    /\ UNCHANGED <<ndebug, side_vars, copy_vars, store_vars, fs_dirs, info, mkdirs, failed,
                   walk_hist, exit_vars>>

\* the text dprintf formats
InfoRecord(fl) ==
    "pid: " \o Decimal(fl.pid) \o "\n"
    \o "uid: " \o Decimal(fl.uid) \o "\n"
    \o "gid: " \o Decimal(fl.gid) \o "\n"
    \o "signal: " \o Decimal(fl.sig) \o "\n"
    \o "timestamp: " \o Decimal(fl.ts) \o "\n"
    \o "comm: " \o PrintS(fl.comm) \o "\n"
    \o "path: " \o PrintS(fl.path) \o "\n"

\* text written at the start of a file holding content, which is not truncated
Overwrite(content, text) == text \o SubSeq(content, Len(text) + 1, Len(content))

\* dprintf(info_fd, ...) writes the record; close(info_fd); return 0
StoreWriteInfo ==
    /\ pc = "write_info"
    /\ info' = Overwrite(info, InfoRecord(fields))
    /\ Exit(0)
    /\ calls' = calls \cup {"dprintf"}
    /\ op' = "dprintf"
    /\ UNCHANGED <<ndebug, side_vars, copy_vars, store_vars, fs_dirs, fs_files, mkdirs, failed,
                   walk_hist>>

\* dprintf(info_fd, ...) fails and writes nothing; its result is not looked at:
\* close(info_fd); return 0
StoreWriteInfoFail ==
    /\ pc = "write_info"
    /\ Exit(0)
    /\ failed' = TRUE
    /\ calls' = calls \cup {"dprintf"}
    /\ op' = "dprintf"
    /\ UNCHANGED <<ndebug, side_vars, copy_vars, store_vars, fs_vars, mkdirs, walk_hist>>

\* ------------------------------------------------------- specifications

NextCopy ==
    \/ CopyTooManyErrors
    \/ CopyReadError
    \/ CopyRead
    \/ CopyReturn
    \/ CopyWriteError
    \/ CopyWrite

\* the lengths of the inbound stream
InputLens == {0, 1, BufSize - 1, BufSize, BufSize + 1, 2 * BufSize + MaxExtra}

\* the locals of copy_file_to_fd at its first statement
CopyEntry ==
    /\ f = fbuf_init
    /\ read_bytes = 0
    /\ written_bytes = 0
    /\ err = 0
    /\ done_reading = FALSE
    /\ faults = 0
    /\ shorts = 0
    /\ rfault = FALSE
    /\ wfault = FALSE
    /\ refail = FALSE
    /\ ret = 0

\* a stream nothing has been read from and a sink nothing has been written to
FreshStreams ==
    /\ in_pos = 0
    /\ in_eof = FALSE
    /\ core = <<>>
    /\ core_off = 0
    /\ CopyEntry

\* the words the kernel substitutes for %P %u %g %s %t %c %e %E, then more words
BaseWords(comm_word) ==
    <<"42", "7", "8", "11", "1700000000", "0", comm_word, "!bin!sh",
      "9", "10", "12", "13", "14">>

\* the names a crashed program can have: a word, a number
CommWords == {"sh", "5"}

\* words put in place of one word of a command line: trailing characters, a
\* numeral that does not fit uintmax_t, the empty word, a number
OddWords == {"12x", "184467440737095516160", "", "3"}

\* the first n base words, with at most one word replaced
TokenVectors ==
    UNION {
        LET w == SubSeq(BaseWords(c), 1, n)
        IN  {w} \cup {[w EXCEPT ![i] = o] : i \in 1..n, o \in OddWords}
        : c \in CommWords, n \in 6..MaxTokens }

\* the option words before the action word
Options == {<<>>, <<"-d/v/c">>, <<"-dv/c">>, <<"-d", "/v/c">>, <<"-d", "v/c">>}

\* dir after main's getopt loop: strdup(default_path), or strdup(optarg) for -d
DirOf(opts) ==
    IF opts = <<>> THEN default_path
    ELSE IF Len(opts) = 2 THEN opts[2]
    ELSE SubSeq(opts[1], 3, Len(opts[1]))

\* the directories a path names: its prefixes, component by component
Prefixes(c) == {SubSeq(c, 1, k) : k \in 1..Len(c)}

\* whether act_store gets past its checks and parse_unum calls with the words w
\* after the action word and this optind, and the leaf name it then builds
HeadAccepts(w, oi) ==
    /\ ArityOk(Len(w) - oi)
    /\ \A i \in 1..Len(NumOffsets) : parse_unum_ok(w[oi + NumOffsets[i] + 1])

HeadLeaf(w, oi) ==
    LeafName(parse_unum(w[oi + NumOffsets[5] + 1]),
             parse_unum(w[oi + NumOffsets[1] + 1]),
             parse_unum(w[oi + NumOffsets[2] + 1]))

\* state no step before the one a specification starts at has touched
\* no second invocation
NoOther == [pc |-> "none"]

\* no call of fbuf_feed on its own
NoFeed == [n |-> 0, b |-> 0]

\* no long copy
NoWide == [pc |-> "none"]

Untouched ==
    /\ feed_call = NoFeed
    /\ other = NoOther
    /\ wide = NoWide
    /\ op = "none"
    /\ info = ""
    /\ failed = FALSE
    /\ exit_status = 0
    /\ exit_at = "none"
    /\ dir0 = dir
    /\ run = 1
    /\ dirs_first = {}

\* the locals of act_store before its declarations are reached
NoFields ==
    [pid |-> 0, uid |-> 0, gid |-> 0, sig |-> 0, ts |-> 0, comm |-> NULL, path |-> NULL]

\* main after its getopt loop, about to dispatch the store action.  The file
\* system holds nothing, the base directory, or the base directory with the
\* leaf of this invocation in it as a directory or as a regular file.
Init ==
    /\ pc = "main"
    /\ ndebug \in BOOLEAN
    /\ in_len = BufSize
    /\ FreshStreams
    /\ \E opts \in Options, w \in TokenVectors, have \in {"none", "base", "dir", "file"} :
        /\ argv = <<"dumpctl">> \o opts \o <<"store">> \o w
        /\ optind = 1 + Len(opts)
        /\ dir = DirOf(opts)
        /\ have \in {"dir", "file"} => AbsoluteOk(DirOf(opts)) /\ HeadAccepts(w, 1 + Len(opts))
        /\ LET base == Canon(DirOf(opts))
               leaf == base \o <<HeadLeaf(w, 1 + Len(opts))>>
           IN  /\ fs_dirs = IF have = "none" THEN {}
                            ELSE IF have = "dir" THEN Prefixes(base) \cup {leaf}
                            ELSE Prefixes(base)
               /\ fs_files = IF have = "file" THEN {leaf} ELSE {}
    /\ argc = Len(argv)
    /\ p = 0
    /\ fields = NoFields
    /\ path_buf = ""
    /\ store_fd = [kind |-> "none", path |-> <<>>]
    /\ calls = {}
    /\ mkdirs = <<>>
    /\ Untouched

\* the store action from main's dispatch to the opening of the core file
Next ==
    \/ MainStore
    \/ StoreArgsRejected
    \/ StoreArgsAccepted
    \/ StoreParseFail
    \/ StoreParse
    \/ StoreMkdir
    \/ StoreMkdirFail
    \/ StoreOpendir
    \/ StoreOpendirFail
    \/ StoreLeaf
    \/ StoreOpenStoreFail
    \/ StoreOpenStore
    \/ StoreOpenCoreFail

Spec == Init /\ [][Next]_vars

\* copy_file_to_fd called on its own, on a fresh stream and an empty sink
InitCopy ==
    /\ pc = "copy_top"
    /\ ndebug \in BOOLEAN
    /\ in_len \in InputLens
    /\ FreshStreams
    /\ argv = <<>>
    /\ argc = 0
    /\ optind = 1
    /\ dir = default_path
    /\ p = 0
    /\ fields = NoFields
    /\ path_buf = ""
    /\ store_fd = [kind |-> "none", path |-> <<>>]
    /\ fs_dirs = {}
    /\ fs_files = {}
    /\ calls = {}
    /\ mkdirs = <<>>
    /\ Untouched

SpecCopy == InitCopy /\ [][NextCopy]_vars

\* copy_file_to_fd as a running process: a sequential program takes its next
\* step whenever it has one
SpecCopyFair == InitCopy /\ [][NextCopy]_vars /\ WF_vars(NextCopy)

\* the command lines act_store accepts without an option word
StoreDirVectors ==
    {w \in {SubSeq(BaseWords("5"), 1, n) : n \in 8..MaxTokens} : HeadAccepts(w, 1)}

\* the lengths of the inbound stream of a store action
StoreInputLens == {0, BufSize + 1, 2 * BufSize + MaxExtra}

\* the number of the first byte of the stream of another invocation, above the
\* numbers of the bytes of this one
OtherStream == 4 * BufSize

\* what the core file of the leaf directory holds when it is opened: nothing,
\* or the core an earlier invocation with the same second, pid and uid stored
OldCores == {<<>>, Bytes(OtherStream, BufSize + 2)}

\* act_store at line 364, with store_fd open on the leaf directory: the state
\* lines 271-362 leave when openat at line 358 returns a descriptor on a
\* directory
InitStoreDir ==
    /\ pc = "open_core"
    /\ ndebug \in BOOLEAN
    /\ in_len \in StoreInputLens
    /\ in_pos = 0
    /\ in_eof = FALSE
    /\ core \in OldCores
    /\ core_off = 0
    /\ CopyEntry
    /\ argv \in StoreDirVectors
    /\ argc = Len(argv)
    /\ optind = 1
    /\ dir = default_path
    /\ p = 0
    /\ \E c \in ArgvAt(optind + CommOffset), q \in ArgvAt(optind + PathOffset) :
           fields = Decoded(c, q)
    /\ path_buf = LeafName(fields.ts, fields.pid, fields.uid)
    /\ store_fd = [kind |-> "dir", path |-> Canon(dir) \o <<path_buf>>]
    /\ fs_dirs = Prefixes(Canon(dir)) \cup {Canon(dir) \o <<path_buf>>}
    /\ fs_files = IF core = <<>> THEN {} ELSE {Canon(dir) \o <<path_buf, "core">>}
    /\ calls = {"mkdir", "opendir", "openat"}
    /\ mkdirs = <<>>
    /\ Untouched

\* lines 364-398 of act_store
NextStoreDir ==
    \/ StoreOpenCoreFail
    \/ StoreOpenCore
    \/ NextCopy
    \/ StoreCopyFailed
    \/ StoreCopyDone
    \/ StoreOpenInfoFail
    \/ StoreOpenInfo
    \/ StoreWriteInfo
    \/ StoreWriteInfoFail

SpecStoreDir == InitStoreDir /\ [][NextStoreDir]_vars

\* a second walk over the same path once the first has ended: the next
\* invocation with the same base directory
WalkAgain ==
    /\ pc = "opendir"
    /\ run = 1
    /\ run' = 2
    /\ dirs_first' = fs_dirs
    /\ p' = 2
    /\ mkdirs' = <<>>
    /\ pc' = "walk"
    /\ op' = "none"
    /\ UNCHANGED <<ndebug, side_vars, copy_vars, argc, argv, optind, dir, fields, path_buf, store_fd,
                   fs_vars, calls, failed, dir0, exit_vars>>

\* the absolute paths walked
WalkDirs == {"/", "/v", "/v/c", "/v//c", "/v/c/", "/v/c/d", default_path}

\* the directory walk of act_store (lines 303-324) on its own: p = dir + 1, on
\* a file system holding some of the directories already, or a regular file
InitWalk ==
    /\ pc = "walk"
    /\ ndebug \in BOOLEAN
    /\ in_len = BufSize
    /\ FreshStreams
    /\ argv = <<>>
    /\ argc = 0
    /\ optind = 1
    /\ dir \in WalkDirs
    /\ p = 2
    /\ fields = NoFields
    /\ path_buf = ""
    /\ store_fd = [kind |-> "none", path |-> <<>>]
    /\ \E k \in 0..Len(Canon(dir)) : fs_dirs = Prefixes(SubSeq(Canon(dir), 1, k))
    /\ fs_files \in {{}, {<<"x">>}, {<<"v", "c">>}}
    /\ \A c \in fs_files : c \notin fs_dirs /\ IsDir(Parent(c))
    /\ calls = {}
    /\ mkdirs = <<>>
    /\ Untouched

NextWalk ==
    \/ StoreMkdir
    \/ StoreMkdirFail
    \/ WalkAgain

SpecWalk == InitWalk /\ [][NextWalk]_vars

\* fbuf_feed(&f, n) called on its own, on a buffer of any occupancy
FeedCall ==
    /\ pc = "feed"
    /\ LET g == fbuf_feed(f, feed_call.n) IN
       /\ f' = g
       /\ IF ndebug \/ fbuf_feed_assert(g, feed_call.n)
          THEN /\ pc' = "fed"
               /\ UNCHANGED <<failed, exit_vars>>
          ELSE /\ pc' = "aborted"
               /\ failed' = TRUE
               /\ exit_status' = ABORT_STATUS
               /\ exit_at' = pc
    /\ op' = "none"
    /\ UNCHANGED <<ndebug, side_vars, in_len, in_pos, in_eof, read_bytes, written_bytes,
                   err, done_reading, core, core_off, faults, shorts, ret, fault_hist,
                   store_vars, fs_vars, calls, mkdirs, walk_hist>>

\* the numbers within FeedEdge of 0 and of c
Near(c) == (0..FeedEdge) \cup ((c - FeedEdge)..c)

\* a buffer of occupancy b at most the capacity, and an argument n up to one
\* more than the capacity
InitFeed ==
    /\ pc = "feed"
    /\ ndebug \in BOOLEAN
    /\ \E b \in Near(BufSize), n \in Near(BufSize + 1) :
        /\ f = [bytes_in_buf |-> b, buf |-> Bytes(0, b)]
        /\ feed_call = [n |-> n, b |-> b]
    /\ in_len = 0
    /\ in_pos = 0
    /\ in_eof = FALSE
    /\ core = <<>>
    /\ core_off = 0
    /\ read_bytes = 0
    /\ written_bytes = 0
    /\ err = 0
    /\ done_reading = FALSE
    /\ faults = 0
    /\ shorts = 0
    /\ rfault = FALSE
    /\ wfault = FALSE
    /\ refail = FALSE
    /\ ret = 0
    /\ argv = <<>>
    /\ argc = 0
    /\ optind = 1
    /\ dir = default_path
    /\ p = 0
    /\ fields = NoFields
    /\ path_buf = ""
    /\ store_fd = [kind |-> "none", path |-> <<>>]
    /\ fs_dirs = {}
    /\ fs_files = {}
    /\ calls = {}
    /\ mkdirs = <<>>
    /\ other = NoOther
    /\ wide = NoWide
    /\ op = "none"
    /\ info = ""
    /\ failed = FALSE
    /\ exit_status = 0
    /\ exit_at = "none"
    /\ dir0 = dir
    /\ run = 1
    /\ dirs_first = {}

NextFeed == FeedCall

SpecFeed == InitFeed /\ [][NextFeed]_vars

\* ------------------------------------------------- the width of the result

\* A size_t or ssize_t value is its 64 bits as four 16-bit words, the most
\* significant first; an int value is its 32 bits as two such words.
Word == 2 ^ 16

\* the value of the top bit of a word: the sign bit of a signed value
SignBit == 2 ^ 15

\* return written_bytes: a size_t returned as ssize_t keeps its 64 bits
ssize_of_size(c) == c

\* r = copy_file_to_fd(...): an ssize_t stored in an int keeps its low 32 bits
int_of_ssize(v) == <<v[3], v[4]>>

\* whether a signed value is below zero: its top bit is set
IsNegative(v) == v[1] >= SignBit

\* return written_bytes at the end of a long copy
WidthReturn ==
    /\ pc = "wide_ret"
    /\ wide' = [wide EXCEPT !.ret = ssize_of_size(wide.written)]
    /\ pc' = "wide_assign"
    /\ op' = "return"
    /\ UNCHANGED <<ndebug, feed_call, other, copy_vars, store_vars, fs_vars, hist_vars,
                   exit_vars>>

\* r = copy_file_to_fd(core_fd, stdin), r an int
WidthAssign ==
    /\ pc = "wide_assign"
    /\ wide' = [wide EXCEPT !.r = int_of_ssize(wide.ret)]
    /\ pc' = "wide_test"
    /\ op' = "none"
    /\ UNCHANGED <<ndebug, feed_call, other, copy_vars, store_vars, fs_vars, hist_vars,
                   exit_vars>>

\* if (r < 0) exit(EXIT_FAILURE)
WidthFailed ==
    /\ pc = "wide_test"
    /\ IsNegative(wide.r)
    /\ Exit(EXIT_FAILURE)
    /\ failed' = TRUE
    /\ op' = "none"
    /\ UNCHANGED <<ndebug, side_vars, copy_vars, store_vars, fs_vars, calls, mkdirs,
                   walk_hist>>

\* r >= 0: close(core_fd)
WidthDone ==
    /\ pc = "wide_test"
    /\ ~IsNegative(wide.r)
    /\ pc' = "open_info"
    /\ op' = "close"
    /\ UNCHANGED <<ndebug, side_vars, copy_vars, store_vars, fs_vars, hist_vars, exit_vars>>

\* the words within WideEdge of 0, of the sign bit and of the largest word
EdgeWords ==
    {w \in 0..(Word - 1) :
        \/ w <= WideEdge
        \/ (SignBit - WideEdge <= w /\ w <= SignBit + WideEdge)
        \/ w >= Word - 1 - WideEdge}

\* the byte counts of long copies: below 2^48, around the multiples of 2^31
WideCounts ==
    {<<0, w2, w1, w0>> : w2 \in 0..WideEdge, w1 \in EdgeWords, w0 \in {0, Word - 1}}

\* copy_file_to_fd at its success return (line 246) at the end of a copy of
\* wide.written bytes, called from act_store (line 371)
InitWidth ==
    /\ pc = "wide_ret"
    /\ ndebug = TRUE
    /\ \E c \in WideCounts : wide = [written |-> c, ret |-> <<0, 0, 0, 0>>, r |-> <<0, 0>>]
    /\ feed_call = NoFeed
    /\ other = NoOther
    /\ in_len = 0
    /\ FreshStreams
    /\ argv = <<>>
    /\ argc = 0
    /\ optind = 1
    /\ dir = default_path
    /\ p = 0
    /\ fields = NoFields
    /\ path_buf = ""
    /\ store_fd = [kind |-> "none", path |-> <<>>]
    /\ fs_dirs = {}
    /\ fs_files = {}
    /\ calls = {}
    /\ mkdirs = <<>>
    /\ op = "none"
    /\ info = ""
    /\ failed = FALSE
    /\ exit_status = 0
    /\ exit_at = "none"
    /\ dir0 = dir
    /\ run = 1
    /\ dirs_first = {}

NextWidth ==
    \/ WidthReturn
    \/ WidthAssign
    \/ WidthFailed
    \/ WidthDone

SpecWidth == InitWidth /\ [][NextWidth]_vars

\* ------------------------------------------------- a second invocation

\* A second store process on the same leaf directory.  other holds its locals
\* under the names they have in the code; its inbound stream is another one,
\* whose bytes are numbered from OtherStream.  Its reads and writes are never
\* short and never fail, so its err stays 0.

\* core_fd = openat(store_fd, "core", O_CREAT|O_WRONLY, 0644); copy_file_to_fd
\* starts
OtherOpenCore ==
    /\ other.pc = "open_core"
    /\ fs_files' = fs_files \cup {store_fd.path \o <<"core">>}
    /\ other' = [other EXCEPT !.pc = "copy_top", !.core_off = 0, !.f = fbuf_init,
                              !.done_reading = FALSE]
    /\ UNCHANGED <<pc, op, ndebug, feed_call, wide, copy_vars, store_vars, fs_dirs, info,
                   hist_vars, exit_vars>>

\* rl = fread(...): the bytes asked for, or those left before end of file;
\* if (rl == 0) done_reading = true; fbuf_feed(&f, rl)
OtherRead ==
    /\ other.pc = "copy_top"
    /\ LET n == fbuf_space(other.f)
           avail == other.in_len - other.in_pos
           rl == IF n = 0 \/ other.in_eof THEN 0 ELSE Min(n, avail)
           eof == IF n = 0 THEN other.in_eof ELSE (other.in_eof \/ avail < n)
           g == fbuf_feed(fbuf_store(other.f, Bytes(OtherStream + other.in_pos, rl)), rl)
       IN  /\ ~(rl = 0 /\ ~eof)
           /\ other' = [other EXCEPT
                  !.in_pos = other.in_pos + rl,
                  !.in_eof = eof,
                  !.done_reading = (other.done_reading \/ rl = 0),
                  !.f = g,
                  !.pc = IF ndebug \/ fbuf_feed_assert(g, rl)
                         THEN "copy_write" ELSE "aborted"]
    /\ UNCHANGED <<pc, op, ndebug, feed_call, wide, copy_vars, store_vars, fs_vars,
                   hist_vars, exit_vars>>

\* if (fbuf_data(&f) == 0) return written_bytes; r >= 0; close(core_fd)
OtherReturn ==
    /\ other.pc = "copy_write"
    /\ fbuf_data(other.f) = 0
    /\ other' = [other EXCEPT !.pc = "open_info"]
    /\ UNCHANGED <<pc, op, ndebug, feed_call, wide, copy_vars, store_vars, fs_vars,
                   hist_vars, exit_vars>>

\* wl = write(out_fd, ...) takes all the data, at the offset of this process's
\* descriptor; fbuf_eat; while (fbuf_space(&f) == 0 || done_reading)
OtherWrite ==
    /\ other.pc = "copy_write"
    /\ fbuf_data(other.f) # 0
    /\ LET wl == fbuf_data(other.f)
           g == fbuf_eat(other.f, wl)
       IN  /\ core' = WriteAt(core, other.core_off, RTake(fbuf_data_bytes(other.f), wl))
           /\ other' = [other EXCEPT
                  !.core_off = other.core_off + wl,
                  !.f = g,
                  !.pc = IF fbuf_space(g) = 0 \/ other.done_reading
                         THEN "copy_write" ELSE "copy_top"]
    /\ UNCHANGED <<pc, op, ndebug, feed_call, wide, in_len, in_pos, in_eof, f, read_bytes,
                   written_bytes, err, done_reading, core_off, faults, shorts, ret,
                   fault_hist, store_vars, fs_vars, hist_vars, exit_vars>>

\* info_fd = openat(store_fd, "info.txt", O_CREAT|O_WRONLY, 0644)
OtherOpenInfo ==
    /\ other.pc = "open_info"
    /\ fs_files' = fs_files \cup {store_fd.path \o <<"info.txt">>}
    /\ other' = [other EXCEPT !.pc = "write_info"]
    /\ UNCHANGED <<pc, op, ndebug, feed_call, wide, copy_vars, store_vars, fs_dirs, info,
                   hist_vars, exit_vars>>

\* dprintf(info_fd, ...); close(info_fd); return 0
OtherWriteInfo ==
    /\ other.pc = "write_info"
    /\ info' = Overwrite(info, InfoRecord(other.fields))
    /\ other' = [other EXCEPT !.pc = "done"]
    /\ UNCHANGED <<pc, op, ndebug, feed_call, wide, copy_vars, store_vars, fs_dirs,
                   fs_files, hist_vars, exit_vars>>

\* the fields of a second crash with the same second, pid and uid: another
\* signal, of more digits
OtherFields(fl) == [fl EXCEPT !.sig = fl.uid]

\* two store processes at line 364, each with store_fd open on the same, empty
\* leaf directory, in a build without assertions and with I/O that does not
\* fail and is not short
InitTwo ==
    /\ pc = "open_core"
    /\ ndebug = TRUE
    /\ in_len \in StoreInputLens
    /\ in_pos = 0
    /\ in_eof = FALSE
    /\ core = <<>>
    /\ core_off = 0
    /\ f = fbuf_init
    /\ read_bytes = 0
    /\ written_bytes = 0
    /\ err = 0
    /\ done_reading = FALSE
    /\ faults = MaxFaults
    /\ shorts = MaxShort
    /\ rfault = FALSE
    /\ wfault = FALSE
    /\ refail = FALSE
    /\ ret = 0
    /\ argv \in StoreDirVectors
    /\ argc = Len(argv)
    /\ optind = 1
    /\ dir = default_path
    /\ p = 0
    /\ \E c \in ArgvAt(optind + CommOffset), q \in ArgvAt(optind + PathOffset) :
           fields = Decoded(c, q)
    /\ path_buf = LeafName(fields.ts, fields.pid, fields.uid)
    /\ store_fd = [kind |-> "dir", path |-> Canon(dir) \o <<path_buf>>]
    /\ fs_dirs = Prefixes(Canon(dir)) \cup {Canon(dir) \o <<path_buf>>}
    /\ fs_files = {}
    /\ calls = {"mkdir", "opendir", "openat"}
    /\ mkdirs = <<>>
    /\ \E n \in StoreInputLens :
           other = [pc |-> "open_core", in_len |-> n, in_pos |-> 0, in_eof |-> FALSE,
                    f |-> fbuf_init, done_reading |-> FALSE, core_off |-> 0,
                    fields |-> OtherFields(fields)]
    /\ feed_call = NoFeed
    /\ wide = NoWide
    /\ op = "none"
    /\ info = ""
    /\ failed = FALSE
    /\ exit_status = 0
    /\ exit_at = "none"
    /\ dir0 = dir
    /\ run = 1
    /\ dirs_first = {}

\* lines 364-398 of each of the two processes, their steps interleaved
NextTwo ==
    \/ StoreOpenCore
    \/ CopyRead
    \/ CopyReturn
    \/ CopyWrite
    \/ StoreCopyDone
    \/ StoreOpenInfo
    \/ StoreWriteInfo
    \/ OtherOpenCore
    \/ OtherRead
    \/ OtherReturn
    \/ OtherWrite
    \/ OtherOpenInfo
    \/ OtherWriteInfo

SpecTwo == InitTwo /\ [][NextTwo]_vars

\* ----------------------------------------------------------------- claims

\* the words after the action word on the command line
Tokens == IF pc = "main" THEN SubSeq(argv, optind + 2, Len(argv)) ELSE argv

\* whether copy_file_to_fd has ended, by a return or by abort()
CopyEnded == pc \in {"copy_ret", "aborted"}

\* C1: in every copy in which no read and no write fails, copy_file_to_fd
\* returns success and the sink holds the bytes of the stream, in order and in
\* full (SpecCopy).
C1_CopyFidelity ==
    (CopyEnded /\ faults = 0) =>
        (pc = "copy_ret" /\ ret = in_len /\ core = Bytes(0, in_len))

\* C1, in a build without assertions: the same statement holds (SpecCopy).
C1_CopyFidelityNdebug == ndebug => C1_CopyFidelity

\* C2: a copy that met at most 10 failed reads and writes, none of them failing
\* again when retried, returns success with all input bytes written
\* (SpecCopy).
C2_ErrorBudgetTolerance ==
    (pc = "copy_ret" /\ faults <= 10 /\ ~refail) =>
        (ret = in_len /\ core = Bytes(0, in_len))

\* C3: once err exceeds 10 the copier makes no further read or write, the
\* sink keeps the bytes it holds, copy_file_to_fd returns a failure and the
\* store action exits with a non-zero status (SpecStoreDir).
C3_BudgetExhaustion ==
    [][err > 10 =>
        /\ op' \notin {"fread", "write"}
        /\ core' = core
        /\ in_pos' = in_pos
        /\ pc' \in {"copy_ret", "exited"}
        /\ pc' = "copy_ret" => ret' < 0
        /\ pc' = "exited" => exit_status' # 0]_vars

\* C3 witness: the store action has exited non-zero after the error counter
\* passed 10, with bytes already in the core file.
C3_Witness ==
    /\ pc = "exited"
    /\ err > 10
    /\ exit_status # 0
    /\ exit_at = "copy_ret"
    /\ RLen(core) > 0

\* C4: the occupancy of the staging buffer is between 0 and its capacity in
\* every state of the copy (SpecCopy).
C4_BufferSafety == f.bytes_in_buf >= 0 /\ f.bytes_in_buf <= 4096

\* C4 witness: the buffer is full again after bytes were drained from it.
C4_Witness == f.bytes_in_buf = 4096 /\ written_bytes > 0 /\ pc = "copy_write"

\* a word that is a number parse_unum is meant to take: digits, nothing after
\* them, a value that fits
WellFormedNumber(w) == w # "" /\ parse_unum_ok(w)

\* the command line the store action is meant to reject: a wrong number of
\* words, a relative base directory, or a malformed pid, uid, gid, signal or
\* timestamp word
InvalidStoreArgs ==
    \/ Len(Tokens) \notin {7, 8}
    \/ ~AbsoluteOk(dir0)
    \/ \E i \in 1..5 : i <= Len(Tokens) /\ ~WellFormedNumber(Tokens[i])

\* C5: given an invalid command line the process makes no mkdir, opendir,
\* openat or write, and its exit status is non-zero (Spec).
C5_ValidationPrecedesMutation ==
    InvalidStoreArgs => (calls = {} /\ (pc = "exited" => exit_status # 0))

\* C6: the store action gets past its argument check exactly when 7 or 8 words
\* follow the action word, with or without a -d option (Spec).
C6_Arity ==
    /\ pc = "store_parse" => Len(Tokens) \in {7, 8}
    /\ (pc = "exited" /\ exit_at = "store_validate" /\ AbsoluteOk(dir0))
           => Len(Tokens) \notin {7, 8}

\* the fields of a command line whose words are pid, uid, gid, signal,
\* timestamp, core limit, comm and exe path, in this order
NamedFields(w) ==
    [pid |-> parse_unum(w[1]), uid |-> parse_unum(w[2]), gid |-> parse_unum(w[3]),
     sig |-> parse_unum(w[4]), ts |-> parse_unum(w[5]),
     comm |-> Ptr(w[7]), path |-> Ptr(w[8])]

\* whether act_store has set pid, uid, gid, sig, ts, comm and path
FieldsDecoded ==
    \/ pc \in {"walk", "opendir", "leaf", "open_store", "open_core"}
    \/ pc = "exited" /\ exit_at \in {"walk", "opendir", "leaf", "open_store", "open_core"}

\* C7: for the eight words pid, uid, gid, signal, timestamp, core limit, comm,
\* exe path, the fields the record is printed from are those of the words of
\* the same name, and a record written to info.txt is the seven lines made of
\* them (Spec).
C7_FieldDecoding ==
    Len(Tokens) = 8 =>
        /\ FieldsDecoded => fields = NamedFields(Tokens)
        /\ "dprintf" \in calls /\ ~failed => info = InfoRecord(NamedFields(Tokens))

\* C8: when the store action comes to open the core file, every prefix of
\* base directory + "/" + leaf, the leaf included, is a directory (Spec).
C8_LeafCreated ==
    pc = "open_core" => Prefixes(Canon(CStr(dir)) \o <<path_buf>>) \subseteq fs_dirs

\* the index of the next slash at or after index i of s, or Len(s) + 1
RECURSIVE NextSlash(_, _)
NextSlash(s, i) == IF i > Len(s) \/ Chr(s, i) = "/" THEN i ELSE NextSlash(s, i + 1)

\* the prefixes of the absolute path s that end before a slash after index i,
\* shortest first, and then s itself
RECURSIVE PrefixList(_, _)
PrefixList(s, i) ==
    LET k == NextSlash(s, i)
    IN  IF k > Len(s) THEN <<s>> ELSE <<SubSeq(s, 1, k - 1)>> \o PrefixList(s, k + 1)

\* C9: the walk calls mkdir on the prefixes of the path, shortest first and the
\* whole path last; an existing name lets it go on and only another failure
\* ends the process; the path string is as it was when the walk has ended; a
\* second walk over the same path succeeds and leaves the directories as the
\* first left them (SpecWalk).
C9_IdempotentWalk ==
    /\ Len(mkdirs) <= Len(PrefixList(dir0, 2))
    /\ mkdirs = SubSeq(PrefixList(dir0, 2), 1, Len(mkdirs))
    /\ pc = "opendir" => (mkdirs = PrefixList(dir0, 2) /\ dir = dir0)
    /\ pc = "exited" => ~Exists(Canon(mkdirs[Len(mkdirs)]))
    /\ run = 2 => pc # "exited"
    /\ (run = 2 /\ pc = "opendir") => fs_dirs = dirs_first

\* C9 witness: the second walk over a path of several components has ended,
\* after a first walk that made directories.
C9_Witness ==
    /\ run = 2
    /\ pc = "opendir"
    /\ Len(mkdirs) >= 3
    /\ Cardinality(dirs_first) >= 2

Done == pc = "exited" /\ exit_status = 0

C12_FeedCheck ==
    /\ pc = "fed" =>
           (feed_call.b + feed_call.n <= 4096 /\ f.bytes_in_buf = feed_call.b + feed_call.n)
    /\ pc = "aborted" => feed_call.b + feed_call.n > 4096

\* C12, the part that holds: an accepted feed leaves occupancy b + n, without
\* truncation (SpecFeed).
C12_NoTruncation == pc = "fed" => f.bytes_in_buf = feed_call.b + feed_call.n
\* C13: copy_file_to_fd returns a success value only when end of file has been
\* seen on the input and the staging buffer is empty, and the value is the
\* number of bytes written, which is the number of bytes read (SpecCopy).
C13_CompletionCondition ==
    (pc = "copy_ret" /\ ret >= 0) =>
        /\ done_reading
        /\ in_eof
        /\ f.bytes_in_buf = 0
        /\ ret = written_bytes
        /\ written_bytes = read_bytes

\* C13 witness: a copy of more than one buffer has returned success after a
\* failed call and a short transfer.
C13_Witness ==
    pc = "copy_ret" /\ ret > 4096 /\ faults > 0 /\ shorts > 0
\* the staging buffer is full, or end of stream has been seen
MustDrain == f.bytes_in_buf = 4096 \/ done_reading

\* C14: while the staging buffer is full or end of stream has been seen, the
\* next read or write the copier makes is a write; a write that fails then adds
\* one to the error counter and leaves the buffer as it is (SpecCopy).
C14_DrainWhenFull ==
    [][(MustDrain /\ pc \in {"copy_top", "copy_write"}) =>
        /\ op' # "fread"
        /\ (op' = "write" /\ err' # err) => (err' = err + 1 /\ f' = f)]_vars

\* C15: every copy comes to a return of copy_file_to_fd, with success or with
\* failure (SpecCopyFair).
C15_CopyReturns == <>(pc = "copy_ret")

\* C15, the part that holds: no copy goes on forever; each one ends with a
\* return or with abort() (SpecCopyFair).
C15_CopyEnds == <>CopyEnded

\* C15 in a build without assertions: every copy comes to a return
\* (SpecCopyFair).
C15_CopyReturnsNdebug == ndebug => <>(pc = "copy_ret")

\* the place of a statement in the order ValidateArgs, BuildPath, CreateDirs,
\* OpenStoreDir, CopyCore, WriteMetadata, Done
Stage(s) ==
    CASE s \in {"main", "store_validate", "store_parse"} -> 1
      [] s = "leaf" -> 2
      [] s = "walk" -> 3
      [] s \in {"opendir", "open_store"} -> 4
      [] s \in {"open_core", "copy_top", "copy_write", "copy_ret"} -> 5
      [] s \in {"open_info", "write_info"} -> 6
      [] OTHER -> 7

\* C16: a run of the store action goes through the stages ValidateArgs,
\* BuildPath, CreateDirs, OpenStoreDir, CopyCore, WriteMetadata, Done in this
\* order and never steps back to an earlier one; the leaf name has been built
\* before any directory is created or opened (Spec).
C16_StageOrder ==
    /\ [][Stage(pc') >= Stage(pc)]_vars
    /\ [](calls # {} => path_buf # "")

\* the copier is in its loop, or has returned from it
InCopyLoop == pc \in {"copy_top", "copy_write", "copy_ret"}

\* C18: between the operations of the copy loop the bytes read are the bytes
\* written plus the occupancy of the staging buffer, and the buffer holds the
\* bytes read and not yet written, in input order; a read or write that fails
\* or moves no byte changes none of the three (SpecCopy).
C18_ByteConservation ==
    /\ [](InCopyLoop =>
            /\ read_bytes = written_bytes + f.bytes_in_buf
            /\ read_bytes = in_pos
            /\ fbuf_data_bytes(f) = Bytes(written_bytes, f.bytes_in_buf))
    /\ [][err' # err => UNCHANGED <<read_bytes, written_bytes, f>>]_vars

\* C18 witness: after a failed call, bytes have been written and the buffer
\* holds bytes of the second buffer-load.
C18_Witness ==
    /\ InCopyLoop
    /\ err > 0
    /\ written_bytes > 0
    /\ f.bytes_in_buf > 0
    /\ read_bytes > 4096

C19_SmallCounts ==
    (wide.written[2] = 0 /\ wide.written[3] < SignBit) => pc # "exited"

\* both store invocations have reached Done
BothDone == Done /\ other.pc = "done"

C17_CoreOfOne ==
    BothDone => core \in {Bytes(0, in_len), Bytes(OtherStream, other.in_len)}

\* C17 for info.txt alone (SpecTwo).
C17_InfoOfOne ==
    BothDone => info \in {InfoRecord(fields), InfoRecord(other.fields)}
====

